---- MODULE Spec2Model ----
(***************************************************************************)
(* Model of src/cache.rs of dump_syms: the symbol lookup                    *)
(* search_symbol_file, with its configuration parser, cache prober, job     *)
(* builder and concurrent fetcher.                                          *)
(*                                                                          *)
(* Strings are sequences of characters.  The characters that the code       *)
(* inspects ('s' 'r' 'v', '*', ';', newline, blank, '~', '/', '.', 'p',     *)
(* 'd', 'b', '_') are modelled one by one; a directory name or a server     *)
(* base URL that the code only copies is one opaque character.  A response  *)
(* body is a sequence of byte groups; the group "SNF" stands for the 16      *)
(* bytes "Symbol Not Found" and "MSCF" for the cabinet signature.           *)
(* An Option<T> value is a sequence of length at most one.                  *)
(*                                                                          *)
(* The filesystem is assumed healthy (create_dir_all, File::create,         *)
(* write_all and the read of an existing file succeed); the transport may   *)
(* fail or never answer.                                                    *)
(***************************************************************************)
EXTENDS Integers, Sequences, FiniteSets, TLC

\* ------------------------------------------------------------------ bounds
\* Number of lookups (calls of search_symbol_file) in one behaviour.
MaxLookups == 2
\* Largest number of jobs of a lookup whose fetch is explored.
MaxJobs == 2

\* --------------------------------------------------------- Option values
None == <<>>
Some(x) == <<x>>

\* ------------------------------------------------------- string helpers
Whitespace == {" ", "\t"}

Last(s) == s[Len(s)]

Front(s) == SubSeq(s, 1, Len(s) - 1)

StartsWith(s, p) == Len(s) >= Len(p) /\ SubSeq(s, 1, Len(p)) = p

EndsWith(s, p) == Len(s) >= Len(p) /\ SubSeq(s, Len(s) - Len(p) + 1, Len(s)) = p

RECURSIVE SplitRec(_, _, _, _)
SplitRec(s, seps, cur, acc) ==
    IF s = <<>> THEN Append(acc, cur)
    ELSE IF Head(s) \in seps THEN SplitRec(Tail(s), seps, <<>>, Append(acc, cur))
    ELSE SplitRec(Tail(s), seps, Append(cur, Head(s)), acc)

\* str::split: the pieces between separators; "" splits into one empty piece.
Split(s, seps) == SplitRec(s, seps, <<>>, <<>>)

RECURSIVE TrimStart(_)
TrimStart(p) ==
    IF p # <<>> /\ Head(p) \in Whitespace THEN TrimStart(Tail(p)) ELSE p

RECURSIVE TrimEnd(_)
TrimEnd(p) ==
    IF p # <<>> /\ Last(p) \in Whitespace THEN TrimEnd(Front(p)) ELSE p

\* str::trim
Trim(p) == TrimEnd(TrimStart(p))

LowerChar(c) ==
    CASE c = "S" -> "s"
      [] c = "R" -> "r"
      [] c = "V" -> "v"
      [] OTHER -> c

\* str::to_lowercase
ToLower(p) == [i \in 1..Len(p) |-> LowerChar(p[i])]

\* ------------------------------------------------------------ constants
DEFAULT_STORE == <<"https://msdl.microsoft.com/download/symbols">>

\* The not-found sentinel b"Symbol Not Found".
SENTINEL == <<"SNF">>

\* Opaque characters that carry a URL scheme: Url::parse accepts a string
\* that starts with one of them and rejects a relative reference.
SchemeChars == {"https://msdl.microsoft.com/download/symbols", "h://u1", "h://u2"}

\* Url::parse(&url).is_err() is false
UrlParseOk(url) == url # <<>> /\ Head(url) \in SchemeChars

\* -------------------------------------------------------------- inputs
SRV == <<"s", "r", "v">>

\* The symbol_server argument: absent, or one of these override strings.
\*   ""                                        (no segment with a server)
\*   "x*h://u1;srv*/c1*h://u1*h://u2"          (only malformed segments)
\*   "srv"                                     (default store, no cache)
\*   " SrV * /c1 *h://u1"                      (one server with a cache)
\*   "srv*/c1*h://u1;srv*~/c2*h://u2"          (two servers with caches)
\*   "srv*h://u2\nsrv*~/c2*h://u2"             (a server without cache first)
\*   "srv*rel"                                 (a server whose URL is relative)
\*   "srv*/c1*h://u1\nsrv*/c1*h://u2"          (two servers with one cache)
\*   "srv*~/c2*h://u2;;srv*/c1*h://u1\nsrv*h://u1"   (three servers)
ConfigStrings ==
    { <<>>,
      <<"x", "*", "h://u1", ";",
        "s", "r", "v", "*", "/c1", "*", "h://u1", "*", "h://u2">>,
      SRV,
      <<" ", "S", "r", "V", " ", "*", " ", "/c1", " ", "*", "h://u1">>,
      <<"s", "r", "v", "*", "/c1", "*", "h://u1", ";",
        "s", "r", "v", "*", "~", "/c2", "*", "h://u2">>,
      <<"s", "r", "v", "*", "h://u2", "\n",
        "s", "r", "v", "*", "~", "/c2", "*", "h://u2">>,
      <<"s", "r", "v", "*", "rel">>,
      <<"s", "r", "v", "*", "/c1", "*", "h://u1", "\n",
        "s", "r", "v", "*", "/c1", "*", "h://u2">>,
      <<"s", "r", "v", "*", "~", "/c2", "*", "h://u2", ";", ";",
        "s", "r", "v", "*", "/c1", "*", "h://u1", "\n",
        "s", "r", "v", "*", "h://u1">> }

Overrides == {None} \cup { Some(c) : c \in ConfigStrings }

FileNames == { <<>>, <<"a", ".", "p", "d", "b">>, <<"a", ".", "d", "l", "l">> }

DebugIds == { <<"ID">> }

HomeDir == <<"/home">>

\* Content of ~/.dump_syms/config when the file exists.
ConfigFiles ==
    { <<"s", "r", "v", "*", "~", "/c2", "*", "h://u2", "\n",
        "s", "r", "v", "*", "h://u1", "\n">> }

\* Response bodies a server can send.
Bodies ==
    { <<>>, <<"SNF">>, <<"SNF", "x">>, <<"a">>, <<"MSCF", "b">>, <<"MSCF">> }

\* ------------------------------------------------------------ variables
VARIABLES
    home,           \* home_dir(): None or Some(directory)
    configFile,     \* ~/.dump_syms/config: None or Some(content)
    fs,             \* the cache files: path |-> content, for the paths that exist
    nlookups,       \* calls of search_symbol_file so far
    pc,             \* "idle", "fetch" (inside tokio::run), "done", "fatal"
    exit,           \* which exit of search_symbol_file the lookup took
    file_name, debug_id, symbol_server,     \* arguments of the current lookup
    repeated,       \* the call repeats the arguments of the lookup before it,
                    \* and that lookup wrote a cache entry
    servers,        \* the parsed server list (empty if none was obtained)
    cfgRead,        \* this lookup read the configuration file
    probes,         \* paths whose existence this lookup tested, in order
    hit,            \* what search_in_cache returned (None if not called)
    built,          \* this lookup called get_jobs
    jobs,           \* the Vec<Job> built by get_jobs (empty if not built)
    sent,           \* URLs of the GET requests this lookup issued, in job order
    status,         \* per job: "flight", "ok", "err" or "dropped"
    body,           \* per job: the response body received (None before)
    order,          \* the jobs whose response arrived, in order of arrival
    results,        \* the Mutex<Vec<Vec<u8>>> of retrieve_data
    written,        \* paths this lookup wrote with copy_in_cache
    cabArg,         \* the buffer given to utils::read_cabinet (None if not called)
    ret             \* the returned pair (None while running or after a panic)

vars == <<home, configFile, fs, nlookups, pc, exit, file_name, debug_id,
          symbol_server, repeated, servers, cfgRead, probes, hit, built, jobs, sent,
          status, body, order, results, written, cabArg, ret>>

\* --------------------------------------------------------- path helpers
\* PathBuf::join: an absolute component replaces the path, otherwise the
\* component is appended after a separator.
Join(a, b) ==
    IF b # <<>> /\ Head(b) = "/" THEN b
    ELSE IF a = <<>> THEN b
    ELSE IF Last(a) = "/" THEN a \o b
    ELSE a \o <<"/">> \o b

\* PathBuf::from(cache).join(debug_id).join(&file_name)
CachePath(cache, id, name) == Join(Join(cache, id), name)

\* Path::exists
Exists(f, path) == path \in DOMAIN f

\* File::create + write_all: create or truncate, then write the data.
WriteFile(f, path, data) ==
    [p \in DOMAIN f \cup {path} |-> IF p = path THEN data ELSE f[p]]

\* ------------------------------------------------------- PathSpec parser
correct_path(h, path) ==
    IF h = None THEN path
    ELSE IF path # <<>> /\ Head(path) = "~" THEN h[1] \o Tail(path)
    ELSE path

\* Variant: a segment of four or more parts is read as one of three parts.
parse_srv_ExtraParts(h, path) ==
    LET raw == Split(path, {"*"})
        parts == [i \in 1..Len(raw) |-> Trim(raw[i])]
    IN  IF Len(parts) = 0 \/ ToLower(parts[1]) # SRV THEN None
        ELSE CASE Len(parts) = 1 ->
                    Some([cache |-> None, server |-> DEFAULT_STORE])
               [] Len(parts) = 2 ->
                    Some([cache |-> None, server |-> parts[2]])
               [] OTHER ->
                    Some([cache |-> Some(correct_path(h, parts[2])),
                          server |-> parts[3]])

parse_srv(h, path) ==
    LET raw == Split(path, {"*"})
        parts == [i \in 1..Len(raw) |-> Trim(raw[i])]
    IN  IF Len(parts) = 0 \/ ToLower(parts[1]) # SRV THEN None
        ELSE CASE Len(parts) = 1 ->
                    Some([cache |-> None, server |-> DEFAULT_STORE])
               [] Len(parts) = 2 ->
                    Some([cache |-> None, server |-> parts[2]])
               [] Len(parts) = 3 ->
                    Some([cache |-> Some(correct_path(h, parts[2])),
                          server |-> parts[3]])
               [] OTHER -> None

RECURSIVE FilterMapSrv(_, _)
FilterMapSrv(h, segs) ==
    IF segs = <<>> THEN <<>>
    ELSE LET r == parse_srv(h, Head(segs))
         IN  (IF r = None THEN <<>> ELSE <<r[1]>>) \o FilterMapSrv(h, Tail(segs))

parse_sympath(h, path) == FilterMapSrv(h, Split(path, {";", "\n"}))

\* Variant: an empty server list is returned as Some(empty list).
read_config_from_str_NoEmptyCheck(h, s) == Some(parse_sympath(h, s))

read_config_from_str(h, s) ==
    LET srvs == parse_sympath(h, s)
    IN  IF srvs = <<>> THEN None ELSE Some(srvs)

read_config(h, cf) ==
    IF h = None THEN None
    ELSE IF cf = None THEN None
    ELSE read_config_from_str(h, cf[1])

\* read_config_from_str tabulated over the configuration strings of the
\* model (the parse of a string is computed once).
ParsedConfig ==
    [h \in {None, Some(HomeDir)} |->
        [c \in ConfigStrings \cup ConfigFiles |-> read_config_from_str(h, c)]]

\* symbol_server.map_or_else(read_config, read_config_from_str)
ConfigOf(ss, h, cf) ==
    IF ss = None
    THEN (IF h = None \/ cf = None THEN read_config(h, cf)
          ELSE ParsedConfig[h][cf[1]])
    ELSE ParsedConfig[h][ss[1]]

\* ---------------------------------------------------------- cache write
\* Variant: the sentinel is compared with the whole body.
Rejected_ExactSentinel(data) == data = <<>> \/ data = SENTINEL

\* Lines 118-120: the bodies copy_in_cache rejects.
Rejected(data) == data = <<>> \/ StartsWith(data, SENTINEL)

\* Variant: a job without cache path is reported as not usable.
copy_in_cache_NoPathFalse(path, data, f) ==
    IF Rejected(data) THEN [ok |-> FALSE, fs |-> f, wrote |-> FALSE]
    ELSE IF path = None THEN [ok |-> FALSE, fs |-> f, wrote |-> FALSE]
    ELSE [ok |-> TRUE, fs |-> WriteFile(f, path[1], data), wrote |-> TRUE]

\* Variant: an existing file is kept as it is (OpenOptions::create_new).
copy_in_cache_KeepExisting(path, data, f) ==
    IF Rejected(data) THEN [ok |-> FALSE, fs |-> f, wrote |-> FALSE]
    ELSE IF path = None THEN [ok |-> TRUE, fs |-> f, wrote |-> FALSE]
    ELSE IF Exists(f, path[1]) THEN [ok |-> TRUE, fs |-> f, wrote |-> FALSE]
    ELSE [ok |-> TRUE, fs |-> WriteFile(f, path[1], data), wrote |-> TRUE]

\* copy_in_cache(path, data): ok is the returned bool, fs the filesystem
\* after the call, wrote tells whether the file was created and written.
copy_in_cache(path, data, f) ==
    IF Rejected(data) THEN [ok |-> FALSE, fs |-> f, wrote |-> FALSE]
    ELSE IF path = None THEN [ok |-> TRUE, fs |-> f, wrote |-> FALSE]
    ELSE [ok |-> TRUE, fs |-> WriteFile(f, path[1], data), wrote |-> TRUE]

\* ---------------------------------------------------------- cache prober
\* Variant: only the cache directory of the first server is probed.
CacheDirs_FirstOnly(srvs) ==
    IF srvs = <<>> THEN <<>> ELSE Head(srvs).cache

\* servers.iter().filter_map(|x| x.cache.as_ref())
RECURSIVE CacheDirs(_)
CacheDirs(srvs) ==
    IF srvs = <<>> THEN <<>>
    ELSE Head(srvs).cache \o CacheDirs(Tail(srvs))

\* Variant: keeps iterating, so that the last existing path wins.
RECURSIVE FirstExisting_LastWins(_, _, _, _)
FirstExisting_LastWins(dirs, id, name, f) ==
    IF dirs = <<>> THEN None
    ELSE LET path == CachePath(Head(dirs), id, name)
             rest == FirstExisting_LastWins(Tail(dirs), id, name, f)
         IN  IF rest # None THEN rest
             ELSE IF Exists(f, path) THEN Some(path)
             ELSE None

RECURSIVE FirstExisting(_, _, _, _)
FirstExisting(dirs, id, name, f) ==
    IF dirs = <<>> THEN None
    ELSE LET path == CachePath(Head(dirs), id, name)
         IN  IF Exists(f, path) THEN Some(path)
             ELSE FirstExisting(Tail(dirs), id, name, f)

\* Variant: the path is joined as cache/file_name/debug_id.
search_in_cache_SwappedKey(srvs, id, name, f) ==
    FirstExisting(CacheDirs(srvs), name, id, f)

search_in_cache(srvs, id, name, f) ==
    FirstExisting(CacheDirs(srvs), id, name, f)

\* The paths search_in_cache tests with Path::exists, in order: it stops
\* at the first one that exists.
RECURSIVE ProbedPaths(_, _, _, _)
ProbedPaths(dirs, id, name, f) ==
    IF dirs = <<>> THEN <<>>
    ELSE LET path == CachePath(Head(dirs), id, name)
         IN  IF Exists(f, path) THEN <<path>>
             ELSE <<path>> \o ProbedPaths(Tail(dirs), id, name, f)

\* ----------------------------------------------------------- job builder
\* Job::new: Err on a URL that does not parse.
Job_new(cache, url) ==
    IF ~UrlParseOk(url) THEN [err |-> TRUE, cache |-> cache, url |-> url]
    ELSE [err |-> FALSE, cache |-> cache, url |-> url]

\* format!("{}/{}/{}/{}", server, file_name, debug_id, last)
QueryUrl(server, name, id, last) ==
    server \o <<"/">> \o name \o <<"/">> \o id \o <<"/">> \o last

\* Variant: the job of the compressed variant carries no cache path.
ServerJobs_VariantNoCache(server, id, name) ==
    LET path == IF server.cache # None
                THEN Some(CachePath(server.cache[1], id, name))
                ELSE None
        first == Job_new(path, QueryUrl(server.server, name, id, name))
        second == Job_new(None, QueryUrl(server.server, name, id,
                                         Front(name) \o <<"_">>))
    IN  IF EndsWith(name, <<".", "p", "d", "b">>)
        THEN <<first, second>>
        ELSE <<first>>

\* Variant: the job of the compressed variant is cached under the name of
\* the variant.
ServerJobs_VariantPath(server, id, name) ==
    LET variant == Front(name) \o <<"_">>
        path(n) == IF server.cache # None
                   THEN Some(CachePath(server.cache[1], id, n))
                   ELSE None
        first == Job_new(path(name), QueryUrl(server.server, name, id, name))
        second == Job_new(path(variant),
                          QueryUrl(server.server, name, id, variant))
    IN  IF EndsWith(name, <<".", "p", "d", "b">>)
        THEN <<first, second>>
        ELSE <<first>>

\* The jobs of one server, in push order.
ServerJobs(server, id, name) ==
    LET path == IF server.cache # None
                THEN Some(CachePath(server.cache[1], id, name))
                ELSE None
        first == Job_new(path, QueryUrl(server.server, name, id, name))
        second == Job_new(path, QueryUrl(server.server, name, id,
                                         Front(name) \o <<"_">>))
    IN  IF EndsWith(name, <<".", "p", "d", "b">>)
        THEN <<first, second>>
        ELSE <<first>>

RECURSIVE AllJobs(_, _, _)
AllJobs(srvs, id, name) ==
    IF srvs = <<>> THEN <<>>
    ELSE ServerJobs(Head(srvs), id, name) \o AllJobs(Tail(srvs), id, name)

\* get_jobs: panics (unwrap_or_else) when a Job::new returns Err.
get_jobs(srvs, id, name) ==
    LET all == AllJobs(srvs, id, name)
    IN  IF \E i \in 1..Len(all) : all[i].err
        THEN [panic |-> TRUE, jobs |-> <<>>]
        ELSE [panic |-> FALSE,
              jobs |-> [i \in 1..Len(all) |->
                          [cache |-> all[i].cache, url |-> all[i].url]]]

\* -------------------------------------------------- external collaborators
\* utils::read_file(path): the bytes of the file.
read_file(f, path) == f[path]

\* utils::read_cabinet(buf, path): a body with the cabinet signature is
\* decompressed (None when it holds no extractable file); any other body is
\* returned as it is.
read_cabinet(buf, path) ==
    IF StartsWith(buf, <<"MSCF">>)
    THEN (IF Len(buf) > 1 THEN Some(Tail(buf)) ELSE None)
    ELSE Some(buf)

\* ------------------------------------------------------------- initial
Init ==
    /\ home \in {None, Some(HomeDir)}
    /\ configFile \in {None} \cup { Some(c) : c \in ConfigFiles }
    /\ home = None => configFile = None
    /\ fs = <<>>
    /\ nlookups = 0
    /\ pc = "idle"
    /\ exit = ""
    /\ file_name = <<>>
    /\ debug_id = <<>>
    /\ symbol_server = None
    /\ repeated = FALSE
    /\ servers = <<>>
    /\ cfgRead = FALSE
    /\ probes = <<>>
    /\ hit = None
    /\ built = FALSE
    /\ jobs = <<>>
    /\ sent = <<>>
    /\ status = <<>>
    /\ body = <<>>
    /\ order = <<>>
    /\ results = <<>>
    /\ written = {}
    /\ cabArg = None
    /\ ret = None

\* ------------------------------------------- search_symbol_file, lines 235-266
\* The pair search_symbol_file returns.
Returned(data, name) == Some([data |-> data, name |-> name])

\* The state of a lookup that has touched nothing.
Untouched ==
    [pc |-> "done", exit |-> "", ret |-> None, servers |-> <<>>,
     cfgRead |-> FALSE, probes |-> <<>>, hit |-> None, built |-> FALSE,
     jobs |-> <<>>]

\* Lines 254-257: build the jobs and enter retrieve_data.
Fetch(st, name, id) ==
    LET js == get_jobs(st.servers, id, name)
    IN  IF js.panic
        THEN [st EXCEPT !.pc = "fatal", !.exit = "url_panic", !.built = TRUE]
        ELSE [st EXCEPT !.pc = "fetch", !.built = TRUE, !.jobs = js.jobs]

\* Variant: a hit is found but the function does not return on it.
Probe_NoReturn(st, name, id, f) ==
    LET found == search_in_cache(st.servers, id, name, f)
        probed == [st EXCEPT !.hit = found,
                             !.probes = ProbedPaths(CacheDirs(st.servers),
                                                    id, name, f)]
    IN  Fetch(probed, name, id)

\* Lines 249-252: probe the caches; a hit is read and returned.
Probe(st, name, id, f) ==
    LET found == search_in_cache(st.servers, id, name, f)
        probed == [st EXCEPT !.hit = found,
                             !.probes = ProbedPaths(CacheDirs(st.servers),
                                                    id, name, f)]
    IN  IF found # None
        THEN [probed EXCEPT !.exit = "cache_hit",
                            !.ret = Returned(Some(read_file(f, found[1])), name)]
        ELSE Fetch(probed, name, id)

\* Lines 244-247: obtain the server list.
Configure(name, id, ss, h, cf, f) ==
    LET config == ConfigOf(ss, h, cf)
        read == ss = None /\ h # None /\ cf # None
        st == [Untouched EXCEPT !.cfgRead = read]
    IN  IF config = None
        THEN [st EXCEPT !.exit = "no_config", !.ret = Returned(None, name)]
        ELSE Probe([st EXCEPT !.servers = config[1]], name, id, f)

\* Variant: no early return on an empty file name.
Begin_NoEmptyCheck(name, id, ss, h, cf, f) == Configure(name, id, ss, h, cf, f)

\* Lines 240-257: the synchronous part of search_symbol_file up to the
\* dispatch of the requests: what it returns or where it stops, and what
\* it touched.
Begin(name, id, ss, h, cf, f) ==
    IF name = <<>>
    THEN [Untouched EXCEPT !.exit = "empty_name", !.ret = Returned(None, name)]
    ELSE Configure(name, id, ss, h, cf, f)

\* Variant: an empty collection is unwrapped, which panics.
Select_PanicOnEmpty(res, name) ==
    IF res # <<>>
    THEN LET buf == Last(res)
             out == read_cabinet(buf, name)
         IN  IF out = None
             THEN [pc |-> "fatal", exit |-> "cabinet_panic", ret |-> None,
                   cabArg |-> Some(buf)]
             ELSE [pc |-> "done", exit |-> "payload",
                   ret |-> Returned(out, name), cabArg |-> Some(buf)]
    ELSE [pc |-> "fatal", exit |-> "cabinet_panic", ret |-> None,
          cabArg |-> None]

\* Variant: the result of read_cabinet is returned without unwrapping it.
Select_NoUnwrap(res, name) ==
    IF res # <<>>
    THEN [pc |-> "done", exit |-> "payload",
          ret |-> Returned(read_cabinet(Last(res), name), name),
          cabArg |-> Some(Last(res))]
    ELSE [pc |-> "done", exit |-> "not_found", ret |-> Returned(None, name),
          cabArg |-> None]

\* Variant: the first collected body is selected (pdbs.remove(0)).
Select_TakeFirst(res, name) ==
    IF res # <<>>
    THEN LET buf == Head(res)
             out == read_cabinet(buf, name)
         IN  IF out = None
             THEN [pc |-> "fatal", exit |-> "cabinet_panic", ret |-> None,
                   cabArg |-> Some(buf)]
             ELSE [pc |-> "done", exit |-> "payload",
                   ret |-> Returned(out, name), cabArg |-> Some(buf)]
    ELSE [pc |-> "done", exit |-> "not_found", ret |-> Returned(None, name),
          cabArg |-> None]

\* Lines 259-266: select the last collected body and decompress it.
Select(res, name) ==
    IF res # <<>>
    THEN LET buf == Last(res)
             out == read_cabinet(buf, name)
         IN  IF out = None
             THEN [pc |-> "fatal", exit |-> "cabinet_panic", ret |-> None,
                   cabArg |-> Some(buf)]
             ELSE [pc |-> "done", exit |-> "payload",
                   ret |-> Returned(out, name), cabArg |-> Some(buf)]
    ELSE [pc |-> "done", exit |-> "not_found", ret |-> Returned(None, name),
          cabArg |-> None]

\* A call of search_symbol_file(name, id, ss).  It runs to its return, to a
\* panic, or to the point where all the jobs' requests are in flight
\* (buffer_unordered(n_queries) polls every job's future at once).
search_symbol_file(name, id, ss) ==
    /\ pc \in {"idle", "done", "fatal"}
    /\ nlookups < MaxLookups
    /\ nlookups' = nlookups + 1
    /\ file_name' = name
    /\ debug_id' = id
    /\ symbol_server' = ss
    /\ repeated' = (/\ written # {}
                    /\ name = file_name
                    /\ id = debug_id
                    /\ ss = symbol_server)
    /\ LET b == Begin(name, id, ss, home, configFile, fs)
       IN  /\ Len(b.jobs) <= MaxJobs
           /\ pc' = b.pc
           /\ exit' = b.exit
           /\ ret' = b.ret
           /\ servers' = b.servers
           /\ cfgRead' = b.cfgRead
           /\ probes' = b.probes
           /\ hit' = b.hit
           /\ built' = b.built
           /\ jobs' = b.jobs
           /\ sent' = [i \in 1..Len(b.jobs) |-> b.jobs[i].url]
           /\ status' = [i \in 1..Len(b.jobs) |-> "flight"]
           /\ body' = [i \in 1..Len(b.jobs) |-> None]
    /\ order' = <<>>
    /\ results' = <<>>
    /\ written' = {}
    /\ cabArg' = None
    /\ UNCHANGED <<home, configFile, fs>>

\* ------------------------------------------------ retrieve_data, lines 192-233
InFlight == { i \in 1..Len(jobs) : status[i] = "flight" }

\* Variant: the body is stored into a copy of the collection taken before
\* the earlier pushes, so that those are lost.
Push_LostUpdate(res, d) == <<d>>

\* Lines 222-225: the for_each closure locks the results and pushes d.
Push(res, d) == Append(res, d)

\* Variant: the stream ends with the first response (the fetch behaves as a
\* select over the requests).
StreamEnds_FirstResponse(i) == TRUE

\* The stream of buffer_unordered ends, and with it the for_each future and
\* tokio::run, when the response of job i arrives and no other job is in
\* flight.
StreamEnds(i) == InFlight = {i}

\* tokio::run has returned with the collected bodies res: retrieve_data
\* returns them and search_symbol_file selects one.
Finish(res) ==
    LET sel == Select(res, file_name)
    IN  /\ pc' = sel.pc
        /\ exit' = sel.exit
        /\ ret' = sel.ret
        /\ cabArg' = sel.cabArg

\* The request of job i completes with body b: the and_then closure calls
\* copy_in_cache and the for_each closure pushes the body if it was usable.
\* The stream is driven by one task, so the write and the push of a job
\* are not interleaved with those of another job.  After the last job the
\* stream ends and the lookup finishes.
JobComplete(i, b) ==
    /\ pc = "fetch"
    /\ i \in InFlight
    /\ LET c == copy_in_cache(jobs[i].cache, b, fs)
           res == IF c.ok THEN Push(results, b) ELSE results
       IN  /\ fs' = c.fs
           /\ written' = IF c.wrote THEN written \cup {jobs[i].cache[1]}
                         ELSE written
           /\ results' = res
           /\ IF StreamEnds(i)
              THEN Finish(res)
              ELSE UNCHANGED <<pc, exit, ret, cabArg>>
    /\ status' = [status EXCEPT ![i] = "ok"]
    /\ body' = [body EXCEPT ![i] = Some(b)]
    /\ order' = Append(order, i)
    /\ UNCHANGED <<home, configFile, nlookups, file_name, debug_id,
                   symbol_server, repeated, servers, cfgRead, probes, hit, built,
                   jobs, sent>>

\* Variant: the failure removes the cache files the lookup has written.
TransportFailAbort_Rollback(i) ==
    /\ pc = "fetch"
    /\ i \in InFlight
    /\ pc' = "fatal"
    /\ exit' = "transport_panic"
    /\ status' = [status EXCEPT ![i] = "err"]
    /\ fs' = [p \in DOMAIN fs \ written |-> fs[p]]
    /\ UNCHANGED <<home, configFile, nlookups, file_name, debug_id,
                   symbol_server, repeated, servers, cfgRead, probes, hit, built,
                   jobs, sent, body, order, results, written, cabArg, ret>>

\* The transport of job i fails: the stream yields Err and the map_err
\* closure panics inside the task that tokio::run spawned.  In a build that
\* aborts on panic the process ends here.
TransportFailAbort(i) ==
    /\ pc = "fetch"
    /\ i \in InFlight
    /\ pc' = "fatal"
    /\ exit' = "transport_panic"
    /\ status' = [status EXCEPT ![i] = "err"]
    /\ UNCHANGED <<home, configFile, fs, nlookups, file_name, debug_id,
                   symbol_server, repeated, servers, cfgRead, probes, hit, built,
                   jobs, sent, body, order, results, written, cabArg, ret>>

\* Variant: the request of a job whose transport failed is issued a second
\* time before the failure is reported.
TransportFailCaught_Retry(i) ==
    /\ pc = "fetch"
    /\ i \in InFlight
    /\ IF Len(sent) = Len(jobs)
       THEN /\ sent' = Append(sent, jobs[i].url)
            /\ UNCHANGED <<status, pc, exit, ret, cabArg>>
       ELSE /\ status' = [j \in 1..Len(jobs) |->
                            IF j = i THEN "err"
                            ELSE IF status[j] = "flight" THEN "dropped"
                            ELSE status[j]]
            /\ Finish(results)
            /\ UNCHANGED sent
    /\ UNCHANGED <<home, configFile, fs, nlookups, file_name, debug_id,
                   symbol_server, repeated, servers, cfgRead, probes, hit, built,
                   jobs, body, order, results, written>>

\* The transport of job i fails in a build that unwinds: the runtime's
\* worker thread catches the panic of the task and drops the task, and with
\* it the requests still in flight; the runtime becomes idle, tokio::run
\* returns and retrieve_data returns the bodies collected before the
\* failure.
TransportFailCaught(i) ==
    /\ pc = "fetch"
    /\ i \in InFlight
    /\ status' = [j \in 1..Len(jobs) |->
                    IF j = i THEN "err"
                    ELSE IF status[j] = "flight" THEN "dropped"
                    ELSE status[j]]
    /\ Finish(results)
    /\ UNCHANGED <<home, configFile, fs, nlookups, file_name, debug_id,
                   symbol_server, repeated, servers, cfgRead, probes, hit, built,
                   jobs, sent, body, order, results, written>>

Next ==
    \/ \E name \in FileNames, id \in DebugIds, ss \in Overrides :
          search_symbol_file(name, id, ss)
    \/ \E i \in 1..Len(jobs), b \in Bodies : JobComplete(i, b)
    \/ \E i \in 1..Len(jobs) : TransportFailAbort(i)
    \/ \E i \in 1..Len(jobs) : TransportFailCaught(i)

Spec == Init /\ [][Next]_vars

\* A response, a body or a transport failure, arrives for a job in flight.
Respond ==
    \/ \E i \in 1..Len(jobs), b \in Bodies : JobComplete(i, b)
    \/ \E i \in 1..Len(jobs) : TransportFailAbort(i)
    \/ \E i \in 1..Len(jobs) : TransportFailCaught(i)

\* The lookups when every request issued is eventually answered: tokio::run
\* (line 230) drives the requests until the stream ends.
SpecFair == Spec /\ WF_vars(Respond)

\* ------------------------------------------- search_in_cache on its own
\* Number of descriptors of a server list given to search_in_cache.
MaxServers == 3

ProbeDescriptors ==
    { [cache |-> c, server |-> <<"h://u1">>] :
        c \in {None, Some(<<"/c1">>), Some(<<"/c2">>)} }

RECURSIVE ServerLists(_)
ServerLists(n) ==
    IF n = 0 THEN {<<>>}
    ELSE ServerLists(n - 1) \cup
         { Append(l, d) : l \in ServerLists(n - 1), d \in ProbeDescriptors }

ProbeNames == FileNames \ {<<>>}

ProbePaths ==
    { CachePath(d, id, name) :
        d \in {<<"/c1">>, <<"/c2">>}, id \in DebugIds, name \in ProbeNames }

\* Any set of cache files left by earlier runs.
InitCache ==
    /\ home = None
    /\ configFile = None
    /\ \E S \in SUBSET ProbePaths : fs = [p \in S |-> <<"a">>]
    /\ nlookups = 0
    /\ pc = "idle"
    /\ exit = ""
    /\ file_name = <<>>
    /\ debug_id = <<>>
    /\ symbol_server = None
    /\ repeated = FALSE
    /\ servers = <<>>
    /\ cfgRead = FALSE
    /\ probes = <<>>
    /\ hit = None
    /\ built = FALSE
    /\ jobs = <<>>
    /\ sent = <<>>
    /\ status = <<>>
    /\ body = <<>>
    /\ order = <<>>
    /\ results = <<>>
    /\ written = {}
    /\ cabArg = None
    /\ ret = None

\* search_in_cache(&svs, id, &name) applied to the current cache files.
ProbeCache(svs, id, name) ==
    /\ pc = "idle"
    /\ servers' = svs
    /\ debug_id' = id
    /\ file_name' = name
    /\ hit' = search_in_cache(svs, id, name, fs)
    /\ probes' = ProbedPaths(CacheDirs(svs), id, name, fs)
    /\ UNCHANGED <<home, configFile, fs, nlookups, pc, exit, symbol_server,
                   repeated, cfgRead, built, jobs, sent, status, body, order,
                   results, written, cabArg, ret>>

NextCache ==
    \E svs \in ServerLists(MaxServers), id \in DebugIds, name \in ProbeNames :
        ProbeCache(svs, id, name)

SpecCache == InitCache /\ [][NextCache]_vars

\* ------------------------------------------------- the parser on its own
\* Number of parts of a configuration string given to the parser.
MaxParts == 4

\* The parts: " SrV\t", " ~/c2 " and the empty part.
ParseParts ==
    { <<" ", "S", "r", "V", "\t">>, <<" ", "~", "/c2", " ">>, <<>> }

\* What separates two parts: the end of a part or the end of a segment.
ParseDelims == {"*", ";", "\n"}

\* The strings of up to n parts.
RECURSIVE ParseStringsOf(_)
ParseStringsOf(n) ==
    IF n = 1 THEN ParseParts
    ELSE LET shorter == ParseStringsOf(n - 1)
         IN  shorter \cup { t \o <<d>> \o q :
                              t \in shorter, d \in ParseDelims, q \in ParseParts }

ParseStrings == ParseStringsOf(MaxParts)

InitParse == Init /\ configFile = None

\* read_config_from_str(&s), once.
ParseStep(s) ==
    /\ nlookups = 0
    /\ nlookups' = 1
    /\ symbol_server' = Some(s)
    /\ LET r == read_config_from_str(home, s)
       IN  /\ servers' = IF r = None THEN <<>> ELSE r[1]
           /\ exit' = IF r = None THEN "no_config" ELSE exit
    /\ UNCHANGED <<home, configFile, fs, pc, file_name, debug_id, repeated,
                   cfgRead, probes, hit, built, jobs, sent, status, body, order,
                   results, written, cabArg, ret>>

NextParse == \E s \in ParseStrings : ParseStep(s)

SpecParse == InitParse /\ [][NextParse]_vars

\* ------------------------------------------------------- get_jobs on its own
\* Descriptors given to get_jobs: without cache or with one of two cache
\* directories, with one of two servers; and one whose URL is relative.
JobDescriptors ==
    { [cache |-> c, server |-> u] :
        c \in {None, Some(<<"/c1">>), Some(<<"/c2">>)},
        u \in {<<"h://u1">>, <<"h://u2">>} }
    \cup { [cache |-> None, server |-> <<"rel">>] }

RECURSIVE JobServerLists(_)
JobServerLists(n) ==
    IF n = 0 THEN {<<>>}
    ELSE JobServerLists(n - 1) \cup
         { Append(l, d) : l \in JobServerLists(n - 1), d \in JobDescriptors }

\* File names given to get_jobs: "a.pdb", "a.dll", "pdb", ".pdb".
JobNames ==
    { <<"a", ".", "p", "d", "b">>, <<"a", ".", "d", "l", "l">>,
      <<"p", "d", "b">>, <<".", "p", "d", "b">> }

InitJobs == Init /\ home = None

\* get_jobs(&svs, id, &name), once.
BuildJobs(svs, id, name) ==
    /\ nlookups = 0
    /\ nlookups' = 1
    /\ servers' = svs
    /\ debug_id' = id
    /\ file_name' = name
    /\ built' = TRUE
    /\ LET js == get_jobs(svs, id, name)
       IN  /\ jobs' = js.jobs
           /\ pc' = IF js.panic THEN "fatal" ELSE pc
           /\ exit' = IF js.panic THEN "url_panic" ELSE exit
    /\ UNCHANGED <<home, configFile, fs, symbol_server, repeated, cfgRead,
                   probes, hit, sent, status, body, order, results, written,
                   cabArg, ret>>

NextJobs ==
    \E svs \in JobServerLists(MaxServers), id \in DebugIds, name \in JobNames :
        BuildJobs(svs, id, name)

SpecJobs == InitJobs /\ [][NextJobs]_vars


\* ================================================================ claims
\* A step that is a call of search_symbol_file.
CallStep == nlookups' = nlookups + 1

\* The cache paths of the descriptors of svs that exist in f.
ExistingCacheFiles(svs, id, name, f) ==
    { CachePath(svs[k].cache[1], id, name) :
        k \in { j \in 1..Len(svs) : svs[j].cache # None } } \cap DOMAIN f

\* C1: a call with an empty file name returns (absent, "") and issues no
\* request, reads no configuration, tests and reads no cache file and
\* writes nothing: the filesystem is as before the call.
C1_EmptyNameTouchesNothing ==
    [][(CallStep /\ file_name' = <<>>) =>
          /\ pc' = "done"
          /\ ret' = Some([data |-> None, name |-> <<>>])
          /\ sent' = <<>>
          /\ status' = <<>>
          /\ cfgRead' = FALSE
          /\ probes' = <<>>
          /\ hit' = None
          /\ built' = FALSE
          /\ written' = {}
          /\ fs' = fs]_vars

\* An empty-name call made with an override that has a cache, while that
\* cache holds files.
C1_Witness ==
    /\ exit = "empty_name"
    /\ file_name = <<>>
    /\ symbol_server # None
    /\ ParsedConfig[home][symbol_server[1]] # None
    /\ fs # <<>>

\* C2: when some descriptor's cache path exists at the probe, the call
\* returns the bytes of such a file, and it builds no job, issues no
\* request, writes no cache entry and does not call the decompression.
C2_HitShortCircuits ==
    [][(CallStep /\ servers' # <<>> /\
          ExistingCacheFiles(servers', debug_id', file_name', fs) # {}) =>
          /\ pc' = "done"
          /\ ret' # None
          /\ ret'[1].name = file_name'
          /\ \E p \in ExistingCacheFiles(servers', debug_id', file_name', fs) :
                ret'[1].data = Some(fs[p])
          /\ built' = FALSE
          /\ jobs' = <<>>
          /\ sent' = <<>>
          /\ written' = {}
          /\ fs' = fs
          /\ cabArg' = None]_vars

\* A hit that returned a cached cabinet as it is stored.
C2_Witness ==
    /\ exit = "cache_hit"
    /\ ret # None
    /\ ret[1].data = Some(<<"MSCF", "b">>)
    /\ cabArg = None
    /\ sent = <<>>

\* The indices of the descriptors of svs whose cache path exists in f.
Candidates(svs, id, name, f) ==
    { k \in 1..Len(svs) :
        svs[k].cache # None /\ CachePath(svs[k].cache[1], id, name) \in DOMAIN f }

\* C3: search_in_cache returns the cache path of the lowest-index
\* descriptor that has a cache directory and whose path exists, and
\* nothing exactly when there is no such descriptor.
C3_FirstInOrderWins ==
    LET idx == Candidates(servers, debug_id, file_name, fs)
    IN  IF idx = {} THEN hit = None
        ELSE \E k \in idx :
                /\ \A j \in idx : k <= j
                /\ hit = Some(CachePath(servers[k].cache[1], debug_id, file_name))

\* A descriptor without cache first, then two descriptors whose paths both
\* exist: the earlier one is returned.
C3_Witness ==
    /\ Len(servers) = 3
    /\ servers[1].cache = None
    /\ servers[2].cache = Some(<<"/c2">>)
    /\ servers[3].cache = Some(<<"/c1">>)
    /\ Candidates(servers, debug_id, file_name, fs) = {2, 3}
    /\ hit = Some(CachePath(<<"/c2">>, debug_id, file_name))

\* A call that repeats the arguments of the finished lookup before it,
\* which wrote a cache entry.
SameKeyAgain ==
    /\ CallStep
    /\ pc \in {"done", "fatal"}
    /\ written # {}
    /\ file_name' = file_name
    /\ debug_id' = debug_id
    /\ symbol_server' = symbol_server

Writers ==
    { k \in 1..Len(servers) :
        /\ servers[k].cache # None
        /\ CachePath(servers[k].cache[1], debug_id, file_name) \in written }

Usable(b) == b # <<>> /\ b[1] # "SNF"

\* Job i receives its response in this step.
Completes(i) == pc = "fetch" /\ status[i] = "flight" /\ status'[i] = "ok"

\* C5: when a job receives a response, the file at its cache path is
\* written with the body if and only if the job has a cache path and the
\* body is usable; otherwise the filesystem is left as it is.
C5_WriteIffUsable ==
    [][\A i \in 1..Len(jobs) : Completes(i) =>
          LET b == body'[i][1]
              c == jobs[i].cache
          IN  IF c # None /\ Usable(b)
              THEN /\ c[1] \in DOMAIN fs'
                   /\ fs'[c[1]] = b
                   /\ written' = written \cup {c[1]}
                   /\ DOMAIN fs' = DOMAIN fs \cup {c[1]}
                   /\ \A p \in DOMAIN fs \ {c[1]} : fs'[p] = fs[p]
              ELSE /\ fs' = fs
                   /\ written' = written]_vars

\* Of two jobs with cache paths, the one that received the sentinel left no
\* file and the one that received a usable body wrote it.
C5_Witness ==
    \E i, j \in 1..Len(jobs) :
        /\ jobs[i].cache # None
        /\ body[i] = Some(<<"SNF", "x">>)
        /\ jobs[i].cache[1] \notin DOMAIN fs
        /\ jobs[j].cache # None
        /\ body[j] = Some(<<"a">>)
        /\ jobs[j].cache[1] \in DOMAIN fs
        /\ fs[jobs[j].cache[1]] = <<"a">>

\* C6: the body a job receives is appended to the results if and only if
\* it is usable, whether or not the job has a cache path.
C6_CountedIffUsable ==
    [][\A i \in 1..Len(jobs) : Completes(i) =>
          LET b == body'[i][1]
          IN  results' = IF Usable(b) THEN Append(results, b) ELSE results]_vars

\* Two jobs without cache path: the usable body was counted and returned,
\* the sentinel was not counted.
C6_Witness ==
    /\ Len(jobs) = 2
    /\ jobs[1].cache = None
    /\ jobs[2].cache = None
    /\ body[1] = Some(<<"a">>)
    /\ body[2] = Some(<<"SNF">>)
    /\ results = << <<"a">> >>
    /\ exit = "payload"
    /\ ret = Some([data |-> Some(<<"a">>), name |-> file_name])
    /\ fs = <<>>

\* C7 as stated: once the transport of a job has failed, the lookup is
\* fatal and returns nothing.
C7_Original ==
    (\E i \in 1..Len(jobs) : status[i] = "err") => (pc = "fatal" /\ ret = None)

\* C8: when every job of a fetch received a response and no body was
\* usable, the results are empty, the lookup returns absent (it does not
\* panic), and it wrote no cache entry: no job's cache path exists.
C8_NothingUsableIsNotFound ==
    (/\ built
     /\ jobs # <<>>
     /\ \A i \in 1..Len(jobs) : status[i] = "ok" /\ ~Usable(body[i][1])) =>
        /\ results = <<>>
        /\ pc = "done"
        /\ ret = Some([data |-> None, name |-> file_name])
        /\ cabArg = None
        /\ written = {}
        /\ \A i \in 1..Len(jobs) :
              jobs[i].cache # None => jobs[i].cache[1] \notin DOMAIN fs

\* A fetch whose jobs have a cache path and received an empty body and the
\* sentinel.
C8_Witness ==
    /\ Len(jobs) = 2
    /\ jobs[1].cache # None
    /\ body[1] = Some(<<>>)
    /\ body[2] = Some(<<"SNF", "x">>)
    /\ exit = "not_found"

\* The configuration strings in which no segment is a server entry.
NoServerStrings ==
    { c \in ConfigStrings \cup ConfigFiles :
        \A h \in {None, Some(HomeDir)} :
            LET segs == Split(c, {";", "\n"})
            IN  \A k \in 1..Len(segs) : parse_srv(h, segs[k]) = None }

\* The configuration of a call with override ss has no usable descriptor:
\* no override and no configuration file, or a text without server entry.
NoUsableDescriptor(ss) ==
    IF ss # None THEN ss[1] \in NoServerStrings
    ELSE \/ home = None
         \/ configFile = None
         \/ configFile[1] \in NoServerStrings

\* C9: a call with a file name and a configuration without usable
\* descriptor returns absent (it does not panic), tests no cache path,
\* builds no job and issues no request.
C9_NoConfigIsNotFound ==
    [][(CallStep /\ file_name' # <<>> /\ NoUsableDescriptor(symbol_server')) =>
          /\ pc' = "done"
          /\ ret' = Some([data |-> None, name |-> file_name'])
          /\ probes' = <<>>
          /\ hit' = None
          /\ built' = FALSE
          /\ jobs' = <<>>
          /\ sent' = <<>>
          /\ fs' = fs]_vars

\* A call whose override has only malformed segments, while cache files
\* exist.
C9_Witness ==
    /\ exit = "no_config"
    /\ file_name # <<>>
    /\ symbol_server # None
    /\ Len(symbol_server[1]) > 0
    /\ fs # <<>>

\* C10: when bodies were collected and the decompression of the selected
\* one, the last, fails, the lookup is fatal: it returns nothing, and the
\* only body given to the decompression is the last one.
C10_BadCabinetIsFatal ==
    (/\ pc \in {"done", "fatal"}
     /\ exit # "transport_panic"
     /\ results # <<>>
     /\ read_cabinet(Last(results), file_name) = None) =>
        /\ pc = "fatal"
        /\ exit = "cabinet_panic"
        /\ ret = None
        /\ cabArg = Some(Last(results))

\* A fatal lookup whose collection also held a body that decompresses.
C10_Witness ==
    /\ exit = "cabinet_panic"
    /\ results = << <<"a">>, <<"MSCF">> >>
    /\ pc = "fatal"

-----------------------------------------------------------------------------
\* The jobs whose response arrived with a usable body, in order of arrival.
UsableJobs == SelectSeq(order, LAMBDA i : Usable(body[i][1]))

\* The lookup has left the fetch phase (returned or panicked) after a miss.
Fetched == pc \in {"done", "fatal"} /\ jobs # <<>> /\ exit # "url_panic"

\* C11: when the fetch phase is over and at least one job completed with a
\* usable body, the body handed to read_cabinet is the body of the job that
\* completed last among the usable ones, whatever its position in the job
\* list; when none did, nothing is handed to read_cabinet.
C11_LastCompletedWins ==
    Fetched /\ exit # "transport_panic" =>
        IF UsableJobs = <<>>
        THEN cabArg = None
        ELSE cabArg = body[Last(UsableJobs)]

\* Two jobs completed with different usable bodies, the first job of the list
\* completed last and its body is the one selected.
C11_Witness ==
    /\ Fetched
    /\ Len(jobs) = 2
    /\ UsableJobs = <<2, 1>>
    /\ body[1] # body[2]
    /\ cabArg = body[1]

-----------------------------------------------------------------------------
\* The lookup has returned or panicked.
Terminal == pc \in {"done", "fatal"}

\* The cache probe was reached: search_in_cache ran on a server list.
ReachedProbe == servers # <<>>

\* The fetch phase was reached: the requests were issued.
ReachedFetch == sent # <<>>

\* The outcomes a finished fetch phase can have.
FetchExits == {"not_found", "payload", "cabinet_panic", "transport_panic"}

\* What a finished fetch phase left: no usable body and DONE(absent), or a
\* selected body and DONE(decompressed bytes) or FATAL.
FetchOutcome ==
    /\ exit \in FetchExits
    /\ exit = "not_found" => pc = "done" /\ results = <<>> /\ cabArg = None
    /\ exit = "payload" => pc = "done" /\ results # <<>> /\ cabArg # None
    /\ exit = "cabinet_panic" => pc = "fatal" /\ results # <<>> /\ cabArg # None
    /\ exit = "transport_panic" => pc = "fatal" /\ cabArg = None

\* Each job's request is issued once, and a finished lookup keeps its outcome
\* until the next call.
IssuedOnce ==
    /\ pc \in {"fetch", "done", "fatal"} =>
           /\ Len(sent) = Len(jobs)
           /\ \A i \in 1..Len(jobs) : sent[i] = jobs[i].url
    /\ ~CallStep =>
           /\ sent' = sent
           /\ \A i \in 1..Len(jobs) : status[i] # "flight" => status'[i] = status[i] \/ pc' # "fetch"
           /\ Terminal => UNCHANGED <<pc, exit, ret>>

-----------------------------------------------------------------------------
\* The file name has the suffix ".pdb".
IsPdb(name) ==
    /\ Len(name) >= 4
    /\ SubSeq(name, Len(name) - 3, Len(name)) = <<".", "p", "d", "b">>

\* Number of jobs of one descriptor for the file name.
PerDescriptor(name) == IF IsPdb(name) THEN 2 ELSE 1

\* get_jobs has returned a job list for servers, debug_id and file_name.
JobsBuilt == built /\ exit # "url_panic"

\* C13: the jobs get_jobs returns are grouped by descriptor, in descriptor
\* order: for a name ending in ".pdb" two consecutive jobs per descriptor,
\* server/name/id/name then server/name/id/<name without its last
\* character>_, otherwise the first one only; each job has the cache path
\* cache/id/name exactly when its descriptor has a cache directory; so there
\* are 2n jobs for a ".pdb" name and n otherwise.
C13_JobsPerDescriptor ==
    JobsBuilt =>
        LET n == Len(servers)
            k == PerDescriptor(file_name)
            sep == <<"/">>
        IN  /\ Len(jobs) = k * n
            /\ \A d \in 1..n :
                  LET base == servers[d].server \o sep \o file_name \o sep
                              \o debug_id \o sep
                      stem == SubSeq(file_name, 1, Len(file_name) - 1)
                      cpath == IF servers[d].cache = None THEN None
                               ELSE Some(servers[d].cache[1] \o sep \o debug_id
                                         \o sep \o file_name)
                  IN  /\ jobs[k * (d - 1) + 1] =
                            [cache |-> cpath, url |-> base \o file_name]
                      /\ k = 2 =>
                            jobs[2 * d] =
                               [cache |-> cpath, url |-> base \o stem \o <<"_">>]

\* Four jobs for a ".pdb" name and two descriptors, the first with a cache
\* directory and the second without.
C13_Witness ==
    /\ JobsBuilt
    /\ IsPdb(file_name)
    /\ Len(servers) = 2
    /\ servers[1].cache # None /\ servers[2].cache = None
    /\ Len(jobs) = 4
    /\ jobs[2].cache # None /\ jobs[4].cache = None

-----------------------------------------------------------------------------
\* The k-th smallest element of a set of numbers.
KthSmallest(S, k) == CHOOSE x \in S : Cardinality({ y \in S : y < x }) = k - 1

\* The pieces of s between the positions that hold a separator.
Pieces(s, seps) ==
    LET P == { i \in 1..Len(s) : s[i] \in seps }
        n == Cardinality(P)
        cut(k) == IF k = 0 THEN 0
                  ELSE IF k = n + 1 THEN Len(s) + 1
                  ELSE KthSmallest(P, k)
    IN  [k \in 1..(n + 1) |-> SubSeq(s, cut(k - 1) + 1, cut(k) - 1)]

\* p from its first to its last character that is not a blank.
Trimmed(p) ==
    LET N == { i \in 1..Len(p) : p[i] \notin {" ", "\t"} }
    IN  IF N = {} THEN <<>>
        ELSE SubSeq(p, KthSmallest(N, 1), KthSmallest(N, Cardinality(N)))

\* p is "srv" in any case.
IsSrv(p) ==
    /\ Len(p) = 3
    /\ p[1] \in {"s", "S"} /\ p[2] \in {"r", "R"} /\ p[3] \in {"v", "V"}

\* A leading "~" replaced by the home directory, when there is one.
HomeExpanded(h, p) ==
    IF h # None /\ p # <<>> /\ p[1] = "~"
    THEN h[1] \o SubSeq(p, 2, Len(p))
    ELSE p

\* The descriptors (none or one) the claim gives to a segment.
SegmentDescriptors(h, seg) ==
    LET raw == Pieces(seg, {"*"})
        part(i) == Trimmed(raw[i])
    IN  IF ~IsSrv(part(1)) THEN {}
        ELSE IF Len(raw) = 1
        THEN {[cache |-> None,
               server |-> <<"https://msdl.microsoft.com/download/symbols">>]}
        ELSE IF Len(raw) = 2 THEN {[cache |-> None, server |-> part(2)]}
        ELSE IF Len(raw) = 3
        THEN {[cache |-> Some(HomeExpanded(h, part(2))), server |-> part(3)]}
        ELSE {}

\* The descriptors of the accepted segments of s, in the order of s.
ExpectedServers(h, s) ==
    LET segs == Pieces(s, {";", "\n"})
        A == { k \in 1..Len(segs) : SegmentDescriptors(h, segs[k]) # {} }
    IN  [j \in 1..Cardinality(A) |->
           CHOOSE d \in SegmentDescriptors(h, segs[KthSmallest(A, j)]) : TRUE]

\* The parser was applied to the string in symbol_server.
Parsed == nlookups = 1 /\ symbol_server # None

\* C14: the parser splits the string on ';' and newline and each segment on
\* '*', trims the parts, discards a segment whose first part is not "srv" in
\* any case or that has four or more parts, reads one part as the default
\* server without cache, two as a server without cache, three as a
\* home-expanded cache directory and a server, keeps the order of the
\* segments, and reports no configuration when no segment is accepted.
C14_ParserTable ==
    Parsed =>
        LET expected == ExpectedServers(home, symbol_server[1])
        IN  /\ servers = expected
            /\ (exit = "no_config") <=> (expected = <<>>)

\* A string of two accepted segments: a segment of three parts with a
\* home-expanded cache directory, then a lone "srv".
C14_Witness ==
    /\ Parsed
    /\ home # None
    /\ Len(Pieces(symbol_server[1], {";", "\n"})) = 2
    /\ Len(servers) = 2
    /\ servers[1].cache = Some(<<"/home", "/c2">>)
    /\ servers[2] = [cache |-> None, server |-> DEFAULT_STORE]

-----------------------------------------------------------------------------
\* The position in the server list of the descriptor job i was built from.
DescriptorOf(i) ==
    (i + PerDescriptor(file_name) - 1) \div PerDescriptor(file_name)

\* Jobs i and j are distinct and have the same cache path.
SamePath(i, j) ==
    i # j /\ jobs[i].cache # None /\ jobs[i].cache = jobs[j].cache

\* C15 as stated: two distinct jobs have the same cache path only if they
\* are the two jobs of one descriptor for a ".pdb" name.
C15_Original ==
    JobsBuilt =>
        \A i, j \in 1..Len(jobs) :
            SamePath(i, j) => DescriptorOf(i) = DescriptorOf(j)

\* C15 (amended): two distinct jobs have the same cache path exactly when
\* their descriptors name the same cache directory: the two jobs of one
\* descriptor for a ".pdb" name, or jobs of two descriptors with one cache
\* directory.
C15_SamePathIffSameDirectory ==
    JobsBuilt =>
        \A i, j \in 1..Len(jobs) :
            i # j =>
               (SamePath(i, j) <=>
                   /\ servers[DescriptorOf(i)].cache # None
                   /\ servers[DescriptorOf(i)].cache = servers[DescriptorOf(j)].cache)

\* Two descriptors with one cache directory and two servers: their jobs have
\* the same cache path.
C15_Witness ==
    /\ JobsBuilt
    /\ Len(servers) = 2
    /\ servers[1].cache # None
    /\ servers[1].cache = servers[2].cache
    /\ servers[1].server # servers[2].server
    /\ Len(jobs) = 2
    /\ SamePath(1, 2)

-----------------------------------------------------------------------------
\* C16 as stated: a file that exists keeps its content in every step.
C16_Original ==
    [][\A p \in DOMAIN fs : p \in DOMAIN fs' /\ fs'[p] = fs[p]]_vars

\* C16 (amended): a cache file is never removed; a lookup never writes a
\* path that existed when it began, so the files earlier lookups left keep
\* their content; the only files whose content changes are those the running
\* lookup itself created, when a second job with the same cache path
\* completes with a usable body.
C16_OverwriteOnlyOwnEntries ==
    [][/\ \A p \in DOMAIN fs :
              /\ p \in DOMAIN fs'
              /\ fs'[p] # fs[p] => ~CallStep /\ p \in written
        /\ ~CallStep => \A q \in written' \ written : q \notin DOMAIN fs]_vars

\* Both jobs of a ".pdb" lookup completed with different usable bodies: the
\* entry the first arrival wrote now holds the body of the second.
C16_Witness ==
    /\ pc \in {"done", "fatal"}
    /\ Len(jobs) = 2
    /\ Len(UsableJobs) = 2
    /\ jobs[1].cache # None /\ jobs[1].cache = jobs[2].cache
    /\ body[1] # body[2]
    /\ fs[jobs[1].cache[1]] = body[Last(UsableJobs)][1]

-----------------------------------------------------------------------------
\* No transport failure happened in the running or finished fetch phase.
NoTransportFailure ==
    /\ pc \in {"fetch", "done", "fatal"}
    /\ ReachedFetch
    /\ \A i \in 1..Len(jobs) : status[i] \in {"flight", "ok"}

\* The jobs that completed with a usable body.
UsableSet == { i \in 1..Len(jobs) : status[i] = "ok" /\ Usable(body[i][1]) }

\* C17: without transport failure the collected results hold exactly one
\* entry per job that completed with a usable body, in order of completion:
\* nothing is lost or duplicated, and when the fetch phase is over the length
\* is the number of usable jobs.
C17_OneEntryPerUsableJob ==
    NoTransportFailure =>
        /\ Len(order) = Cardinality({ i \in 1..Len(jobs) : status[i] = "ok" })
        /\ { UsableJobs[k] : k \in 1..Len(UsableJobs) } = UsableSet
        /\ Len(UsableJobs) = Cardinality(UsableSet)
        /\ results = [k \in 1..Len(UsableJobs) |-> body[UsableJobs[k]][1]]
        /\ Terminal => InFlight = {} /\ Len(results) = Cardinality(UsableSet)

\* The fetch phase ended for two jobs of which the second arrived first, both
\* with usable bodies that differ: the results hold them in that order.
C17_Witness ==
    /\ NoTransportFailure
    /\ Terminal
    /\ Len(jobs) = 2
    /\ order = <<2, 1>>
    /\ body[1] # body[2]
    /\ results = <<body[2][1], body[1][1]>>

-----------------------------------------------------------------------------
\* The requests of all the jobs were issued.
AllIssued == Len(sent) = Len(jobs) /\ Len(status) = Len(jobs)

\* C18 as stated: all the requests are issued together, and a lookup that
\* went to the servers has no outcome, returned or fatal, while the response
\* of one of its jobs has not arrived.
C18_Original ==
    /\ pc = "fetch" => AllIssued /\ (order = <<>> => InFlight = 1..Len(jobs))
    /\ Terminal /\ ReachedFetch =>
          \A i \in 1..Len(jobs) : status[i] \in {"ok", "err"}

\* C18 (amended): all the requests are issued together; as long as no
\* transport failure happened, the lookup has no outcome while the response
\* of one of its jobs has not arrived, also when another job has completed
\* with a usable body.  (A transport failure ends the lookup while other
\* jobs are in flight.)
C18_NoOutcomeBeforeAllResponses ==
    /\ pc = "fetch" => AllIssued /\ (order = <<>> => InFlight = 1..Len(jobs))
    /\ NoTransportFailure /\ InFlight # {} =>
          pc = "fetch" /\ ret = None /\ cabArg = None
    /\ NoTransportFailure /\ Terminal =>
          \A i \in 1..Len(jobs) : status[i] = "ok"

\* The first job has completed with a usable body, the second is in flight
\* and the lookup has no outcome yet.
C18_Witness ==
    /\ pc = "fetch"
    /\ Len(jobs) = 2
    /\ status[1] = "ok" /\ Usable(body[1][1])
    /\ status[2] = "flight"
    /\ ret = None

-----------------------------------------------------------------------------
\* A body was selected, and the job it came from has a cache path.
SelectedFromCachingJob ==
    /\ Terminal
    /\ cabArg # None
    /\ UsableJobs # <<>>
    /\ jobs[Last(UsableJobs)].cache # None

\* C19: when a body is selected and its job has a cache path, the file at
\* that path holds exactly the selected body, the bytes as received and not
\* the decompressed ones: the cache entry and the input of read_cabinet are
\* the same bytes.
C19_CacheHoldsSelectedBody ==
    SelectedFromCachingJob =>
        LET path == jobs[Last(UsableJobs)].cache[1]
        IN  /\ path \in DOMAIN fs
            /\ fs[path] = cabArg[1]
            /\ cabArg = body[Last(UsableJobs)]

\* A cabinet was selected and decompressed: the cache entry holds the
\* cabinet and the lookup returned the extracted payload.
C19_Witness ==
    /\ SelectedFromCachingJob
    /\ exit = "payload"
    /\ cabArg = Some(<<"MSCF", "b">>)
    /\ fs[jobs[Last(UsableJobs)].cache[1]] = <<"MSCF", "b">>
    /\ ret = Returned(Some(<<"b">>), file_name)

-----------------------------------------------------------------------------
\* The lookup ended fatally in its fetch phase: transport or decompression.
EndedFatal == pc = "fatal" /\ exit \in {"cabinet_panic", "transport_panic"}

\* Job i completed with a usable body and has a cache path.
WroteEntry(i) ==
    status[i] = "ok" /\ Usable(body[i][1]) /\ jobs[i].cache # None

\* The jobs that wrote path p, in order of completion.
WritersOf(p) == SelectSeq(UsableJobs, LAMBDA i : jobs[i].cache = Some(p))

\* C20 as stated: after a fatal lookup the entry of every job that completed
\* with a usable body exists with that body, and a following lookup for the
\* same key and configuration hits the cache and returns those bytes, with
\* no request and no decompression.
C20_Original ==
    /\ [](EndedFatal =>
             \A i \in 1..Len(jobs) :
                 WroteEntry(i) =>
                    /\ jobs[i].cache[1] \in DOMAIN fs
                    /\ fs[jobs[i].cache[1]] = body[i][1])
    /\ [][EndedFatal /\ SameKeyAgain =>
             /\ exit' = "cache_hit"
             /\ sent' = <<>>
             /\ cabArg' = None
             /\ \A i \in 1..Len(jobs) :
                   WroteEntry(i) => ret' = Returned(body[i], file_name)]_vars

\* C20 (amended): after a fatal lookup every path written by one of its jobs
\* exists and holds the body of the job that wrote it last; a following
\* lookup for the same key and configuration leaves the files as they are,
\* hits the cache, issues no request, decompresses nothing and returns the
\* entry of the first descriptor, in order, that has one.
C20_NoRollback ==
    /\ [](EndedFatal =>
             /\ \A i \in 1..Len(jobs) :
                   WroteEntry(i) => jobs[i].cache[1] \in written
             /\ \A p \in written :
                   /\ p \in DOMAIN fs
                   /\ WritersOf(p) # <<>>
                   /\ fs[p] = body[Last(WritersOf(p))][1])
    /\ [][EndedFatal /\ SameKeyAgain =>
             /\ pc' = "done"
             /\ exit' = "cache_hit"
             /\ fs' = fs
             /\ sent' = <<>>
             /\ cabArg' = None
             /\ \E k \in Writers :
                   /\ \A j \in Writers : k <= j
                   /\ ret' = Returned(
                         Some(fs[CachePath(servers[k].cache[1], debug_id,
                                           file_name)]),
                         file_name)]_vars

\* The single job of a lookup answered with a cabinet that cannot be
\* decompressed, which was cached before the panic; the same lookup again
\* hit the cache and returned the cabinet as it is.
C20_Witness ==
    /\ repeated
    /\ nlookups = 2
    /\ Len(servers) = 1
    /\ file_name = <<"a", ".", "d", "l", "l">>
    /\ exit = "cache_hit"
    /\ sent = <<>>
    /\ cabArg = None
    /\ ret = Returned(Some(<<"MSCF">>), file_name)

====
